---- MODULE Spec2Model ----
(***************************************************************************)
(* Model of parse-utils (src/src/index.js): the paged fetch-all (findAll), *)
(* the delete-all convergence loop (deleteAllByQuery), the chunked bulk    *)
(* write (saveAllInChunks) and the schema reconciler                       *)
(* (loadClassesFromSchemas).                                               *)
(*                                                                         *)
(* Each operation is an async function: every await is a point where the   *)
(* backend answers a request, so every action below is the backend         *)
(* answering one request followed by the code that runs up to the next     *)
(* await.  The backend (Parse.Query, Parse.Object, the schema controller)  *)
(* is outside the repository; it is modelled by what its calls do to the   *)
(* stored records / class schemas.                                         *)
(*                                                                         *)
(* The four operations share no state (each has its own specification:     *)
(* SpecFind, SpecDelete, SpecSave, SpecSchema); the variable op says which *)
(* operation the behaviour runs.                                           *)
(***************************************************************************)
EXTENDS Integers, Sequences, FiniteSets, TLC

VARIABLES
  op,        \* the operation this behaviour runs
  \* ---- the backend's records and the caller's query object -------------
  db,        \* records matching the caller's filter, in the backend's order
  n0,        \* number of matching records when the operation was called
  nIns,      \* matching records inserted by an external writer so far
  nDel,      \* matching records deleted by an external writer so far
  drift,     \* a write happened after the count was taken and before the
             \* last page request was answered (findAll)
  qSkip,     \* the caller's query object: its skip setting
  qLimit,    \* the caller's query object: its limit setting (-1: never set)
  \* ---- findAll ---------------------------------------------------------
  fPc,       \* "count" | "counted" | "paging" | "resolved" | "rejected"
  fCount,    \* the value parseQuery.count() resolved to
  fReqs,     \* the page requests issued, in page-index order
  fPages,    \* per page request: [st |-> "pending"|"ok"|"err", recs |-> ...]
  fOrder,    \* the page requests answered so far, in the order of the answers
  fResult,   \* the value findAll resolved to
  fErr,      \* the error findAll rejected with ("none" when none)
  \* ---- deleteAllByQuery ------------------------------------------------
  dPc,       \* "call" | "find" | "destroy" | "resolved" | "rejected"
  dObjs,     \* objectsToDelete of the current round
  dFinds,    \* number of parseQuery.find calls answered
  dDestroys, \* number of Parse.Object.destroyAll calls answered
  dLast,     \* the count the last round returned (-1 before the first)
  dErr,      \* the error deleteAllByQuery rejected with
  dReqs,     \* the requests deleteAllByQuery sent to the backend, in order
  dAnswers,  \* the backend's answer to each of them: "ok" or its error
  dGone,     \* the records the destroyAll calls have deleted
  \* ---- saveAllInChunks -------------------------------------------------
  sObjs,     \* parseObjects
  sChunkSize,\* chunkSize: <<>> when not given, <<c>> when given
  sPc,       \* "call" | "loop" | "await" | "resolved" | "rejected"
  sChunks,   \* objectsChunks
  sIdx,      \* index (from 1) of the chunk the for loop is at
  sResult,   \* result
  sCalls,    \* the arguments of the saveAll calls issued so far, in order
  sSaved,    \* the records the backend has saved
  sInFlight, \* saveAll calls issued and not yet answered
  sReturned, \* <<v>> once saveAllInChunks resolved to v, <<>> before
  sErr,      \* the error saveAllInChunks rejected with
  sAnswers,  \* the backend's answer to each saveAll call: "ok" or its error
  sReplies,  \* the values the saveAll calls resolved to, in call order
  \* ---- loadClassesFromSchemas ------------------------------------------
  remote,    \* the backend's classes: class name -> (field -> descriptor)
  perms,     \* the backend's class level permissions: class name -> perms
  remote0,   \* remote and perms as they were before the first call
  perms0,
  snapshot,  \* parseServerDbSchema.data, as loaded by loadSchema()
  schemas,   \* the schemas argument: sequence of [name, schema, permissions]
  shouldUpdate,
  lPc,       \* "load" | "running" | "resolved" | "rejected"
  lErr,      \* the error loadClassesFromSchemas rejected with
  tPc,       \* per entry of schemas, where its loadClass(...) is
  tErr,      \* per entry of schemas, the error its loadClass rejected with
  addAnswer, \* per entry of schemas, the backend's answer to its
             \* addClassIfNotExists call: Pending, Created or the error
  updCalls,  \* updateClass calls issued, in order:
             \* [task, line, name, patch, permissions]
  gscCalls,  \* the entries of schemas whose loadClass called getSchemaChanges
  wCreated,  \* the classes another client of the backend created during the
             \* call, after the snapshot was loaded
  run        \* 1: first call, 2: the caller's second call, same arguments

recVars    == <<db, n0, nIns, nDel, drift, qSkip, qLimit>>
findVars   == <<fPc, fCount, fReqs, fPages, fOrder, fResult, fErr>>
delVars    == <<dPc, dObjs, dFinds, dDestroys, dLast, dErr, dReqs, dAnswers,
                dGone>>
saveVars   == <<sObjs, sChunkSize, sPc, sChunks, sIdx, sResult, sCalls,
                sSaved, sInFlight, sReturned, sErr, sAnswers, sReplies>>
schemaVars == <<remote, perms, remote0, perms0, snapshot, schemas,
                shouldUpdate, lPc, lErr, tPc, tErr, addAnswer, updCalls,
                gscCalls, wCreated, run>>
vars       == <<op, recVars, findVars, delVars, saveVars, schemaVars>>

(***************************************************************************)
(* Bounds of the model.                                                    *)
(***************************************************************************)
\* Record sets of 0, 1 and k*PAGE_SIZE-1, k*PAGE_SIZE, k*PAGE_SIZE+1 records
\* for k up to MaxPages.
MaxPages == 2
\* The external writer inserts or deletes at most MaxWrites records.
MaxWrites == 1
\* saveAllInChunks gets 0..MaxObjs objects, or k*200-1, k*200, k*200+1
\* objects for k up to MaxDefaultChunks, and a chunkSize of -1..MaxChunkSize
\* or none.
MaxObjs == 4
MaxChunkSize == 3
MaxDefaultChunks == 2
\* A bulk call that fails part-way has handled at most MaxPartial objects.
MaxPartial == 1
\* loadClassesFromSchemas gets 1..MaxSchemas class descriptors.
MaxSchemas == 2
\* Another client creates at most MaxOtherCreates classes during the call.
MaxOtherCreates == 1

(***************************************************************************)
(* Helpers: lodash and JavaScript built-ins the code calls.                *)
(***************************************************************************)
Min(a, b) == IF a < b THEN a ELSE b

\* Faulty variant: the page count rounded down instead of up
CeilAsFloor(a, b) == a \div b

\* Math.ceil(a / b) for a >= 0, b > 0
Ceil(a, b) == (a + b - 1) \div b

\* lodash range(start, end): start, start+1, ..., end-1
Range(start, end) ==
  IF end > start THEN [i \in 1..(end - start) |-> start + i - 1] ELSE <<>>

\* lodash flatten, one level: the concatenation of the member arrays in order
\* (computed by halves, so that hundreds of member arrays nest only a few
\* evaluations deep)
RECURSIVE Flatten(_)
Flatten(arrays) ==
  IF arrays = <<>> THEN <<>>
  ELSE IF Len(arrays) = 1 THEN arrays[1]
  ELSE LET half == Len(arrays) \div 2
       IN  Flatten(SubSeq(arrays, 1, half)) \o
           Flatten(SubSeq(arrays, half + 1, Len(arrays)))

SeqRange(s) == {s[i] : i \in 1..Len(s)}

\* s without the elements at the positions in ps
RemoveAt(s, p) == SubSeq(s, 1, p - 1) \o SubSeq(s, p + 1, Len(s))

\* s without the members of set S, order kept
Without(s, S) == SelectSeq(s, LAMBDA x : x \notin S)

(***************************************************************************)
(* The backend's answers to query requests.                                *)
(***************************************************************************)
\* query.count(): the number of matching records
BackendCount(records) == Len(records)

\* query.find() of a query with the given skip and limit: at most limit
\* records, starting after the first skip ones, in the backend's order
BackendFind(records, skip, limit) ==
  SubSeq(records, skip + 1, Min(Len(records), skip + limit))

\* the errors a backend call can fail with
BackendErrors == {"timeout", "forbidden"}

(***************************************************************************)
(* findAll                                                                 *)
(***************************************************************************)
PAGE_SIZE == 500

RecordCounts ==
  {0, 1} \cup {k * PAGE_SIZE + d : k \in 1..MaxPages, d \in {-1, 0, 1}}

\* Faulty variant: pages that overlap by one record
PageRequestOverlap(page) ==
  [skip |-> page * (PAGE_SIZE - 1), limit |-> PAGE_SIZE]

\* pages.map(page => parseQuery.skip(page * PAGE_SIZE).limit(PAGE_SIZE).find())
\* the request each find() sends: skip and limit as set on the query when
\* find() is called
PageRequest(page) == [skip |-> page * PAGE_SIZE, limit |-> PAGE_SIZE]

PageRequests(count) ==
  LET pagesCount == Ceil(count, PAGE_SIZE)
      pages      == Range(0, pagesCount)
  IN  [i \in 1..Len(pages) |-> PageRequest(pages[i])]

\* const count = await parseQuery.count(options)
FindCount ==
  /\ op = "findAll" /\ fPc = "count"
  /\ fCount' = BackendCount(db)
  /\ fPc' = "counted"
  /\ UNCHANGED <<op, recVars, fReqs, fPages, fOrder, fResult, fErr, delVars,
                 saveVars, schemaVars>>

\* parseQuery.count rejects: the await throws and findAll rejects
FindCountFail ==
  /\ op = "findAll" /\ fPc = "count"
  /\ \E e \in BackendErrors : fErr' = e
  /\ fPc' = "rejected"
  /\ UNCHANGED <<op, recVars, fCount, fReqs, fPages, fOrder, fResult,
                 delVars, saveVars, schemaVars>>

\* pagesCount, pages, and the synchronous pages.map(...): every page's
\* find() is called, on the caller's query object, before Promise.all awaits
FindIssuePages ==
  /\ op = "findAll" /\ fPc = "counted"
  /\ fReqs' = PageRequests(fCount)
  /\ fPages' = [i \in 1..Len(fReqs') |-> [st |-> "pending", recs |-> <<>>]]
  /\ qSkip' = IF fReqs' = <<>> THEN qSkip ELSE fReqs'[Len(fReqs')].skip
  /\ qLimit' = IF fReqs' = <<>> THEN qLimit ELSE PAGE_SIZE
  /\ fPc' = "paging"
  /\ UNCHANGED <<op, db, n0, nIns, nDel, drift, fCount, fOrder, fResult,
                 fErr, delVars, saveVars, schemaVars>>

\* the backend answers the find() of page request i
FindServePage(i) ==
  /\ op = "findAll" /\ fPc = "paging"
  /\ i \in 1..Len(fPages) /\ fPages[i].st = "pending"
  /\ fPages' = [fPages EXCEPT ![i] =
       [st |-> "ok", recs |-> BackendFind(db, fReqs[i].skip, fReqs[i].limit)]]
  /\ fOrder' = Append(fOrder, i)
  /\ UNCHANGED <<op, recVars, fPc, fCount, fReqs, fResult, fErr, delVars,
                 saveVars, schemaVars>>

\* the find() of page request i rejects
FindPageFail(i) ==
  /\ op = "findAll" /\ fPc = "paging"
  /\ i \in 1..Len(fPages) /\ fPages[i].st = "pending"
  /\ \E e \in BackendErrors :
       fPages' = [fPages EXCEPT ![i] = [st |-> e, recs |-> <<>>]]
  /\ fOrder' = Append(fOrder, i)
  /\ UNCHANGED <<op, recVars, fPc, fCount, fReqs, fResult, fErr, delVars,
                 saveVars, schemaVars>>

\* Faulty variant: the join waits for every page to settle, failed or not
AllSettled(pages) == \A i \in 1..Len(pages) : pages[i].st # "pending"

\* Promise.all(promises) resolves once every promise has resolved
AllResolved(pages) == \A i \in 1..Len(pages) : pages[i].st = "ok"

\* Faulty variant: the pages are joined in the order their answers arrived
JoinedInArrivalOrder(pages, order) ==
  Flatten([k \in 1..Len(order) |-> pages[order[k]].recs])

\* flatten(await Promise.all(...)): Promise.all resolves to the values in the
\* order of the promises it was given, whatever the order they resolved in
Joined(pages, order) == Flatten([i \in 1..Len(pages) |-> pages[i].recs])

\* the first page request, in the order of the answers, that was rejected
FirstRejected(pages, order) ==
  LET ks == {k \in 1..Len(order) : pages[order[k]].st \in BackendErrors}
  IN  order[CHOOSE k \in ks : \A l \in ks : k <= l]

\* Promise.all resolves once every page resolved: flatten(pages in index order)
FindJoin ==
  /\ op = "findAll" /\ fPc = "paging"
  /\ AllResolved(fPages)
  /\ fResult' = Joined(fPages, fOrder)
  /\ fPc' = "resolved"
  /\ UNCHANGED <<op, recVars, fCount, fReqs, fPages, fOrder, fErr, delVars,
                 saveVars, schemaVars>>

\* Promise.all rejects as soon as one page rejected, with that page's error:
\* the error of the first rejection
FindReject ==
  /\ op = "findAll" /\ fPc = "paging"
  /\ \E i \in 1..Len(fPages) : fPages[i].st \in BackendErrors
  /\ fErr' = fPages[FirstRejected(fPages, fOrder)].st
  /\ fPc' = "rejected"
  /\ UNCHANGED <<op, recVars, fCount, fReqs, fPages, fOrder, fResult,
                 delVars, saveVars, schemaVars>>

(***************************************************************************)
(* deleteAllByQuery / _destroyAll / _deleteChunk                           *)
(***************************************************************************)
DELETE_LIMIT == 500

\* Faulty variant: the loop ends after its first round
AfterRoundOnce(count) == "resolved"

\* Faulty variant: the loop ends at the first round that is not a full one
AfterRoundUntilShort(count) ==
  IF count = DELETE_LIMIT THEN "find" ELSE "resolved"

\* _destroyAll: (count) ? await _destroyAll(parseQuery, options)
\*                      : Parse.Promise.as()
AfterRound(count) == IF count # 0 THEN "find" ELSE "resolved"

\* Faulty variant: every round skips the records of the rounds before it
FindRequestSkipping(skip, limit, round) ==
  [kind |-> "find", skip |-> skip + (round - 1) * limit, limit |-> limit,
   objs |-> <<>>]

\* _deleteChunk: parseQuery.find(options), on the query deleteAllByQuery
\* bounded once; no round touches the query's skip or limit
FindRequest(skip, limit, round) ==
  [kind |-> "find", skip |-> skip, limit |-> limit, objs |-> <<>>]

\* _deleteChunk: Parse.Object.destroyAll(objectsToDelete, options)
DestroyAllRequest(objectsToDelete) ==
  [kind |-> "destroyAll", skip |-> 0, limit |-> 0, objs |-> objectsToDelete]

\* Faulty variant: a rejected round is swallowed and the next round starts
OnRoundRejectedGoOn(e) == [pc |-> "find", err |-> "none"]

\* no try/catch in _deleteChunk, _destroyAll or deleteAllByQuery: a rejected
\* await rejects all three with the error of the call
OnRoundRejected(e) == [pc |-> "rejected", err |-> e]

\* the find() request that is sent when the code goes on to pc
NextRoundRequests(pc, reqs, skip, limit, round) ==
  IF pc = "find" THEN Append(reqs, FindRequest(skip, limit, round)) ELSE reqs

\* requests sent and not yet answered
dInFlight == Len(dReqs) - Len(dAnswers)

\* deleteAllByQuery: parseQuery.limit(500) sets the limit of the caller's
\* query object; _destroyAll -> _deleteChunk sends the first find()
DeleteCall ==
  /\ op = "deleteAllByQuery" /\ dPc = "call"
  /\ qLimit' = DELETE_LIMIT
  /\ dPc' = "find"
  /\ dReqs' = NextRoundRequests(dPc', dReqs, qSkip, qLimit', 1)
  /\ UNCHANGED <<op, db, n0, nIns, nDel, drift, qSkip, findVars, dObjs,
                 dFinds, dDestroys, dLast, dErr, dAnswers, dGone, saveVars,
                 schemaVars>>

\* _deleteChunk: const objectsToDelete = await parseQuery.find(options)
\* then Parse.Object.destroyAll(objectsToDelete, options) is sent
DeleteFind ==
  /\ op = "deleteAllByQuery" /\ dPc = "find"
  /\ LET req == dReqs[Len(dReqs)]
     IN  dObjs' = BackendFind(db, req.skip, req.limit)
  /\ dFinds' = dFinds + 1
  /\ dAnswers' = Append(dAnswers, "ok")
  /\ dReqs' = Append(dReqs, DestroyAllRequest(dObjs'))
  /\ dPc' = "destroy"
  /\ UNCHANGED <<op, recVars, findVars, dDestroys, dLast, dErr, dGone,
                 saveVars, schemaVars>>

\* parseQuery.find rejects: _deleteChunk, _destroyAll and deleteAllByQuery
\* reject with that error
DeleteFindFail ==
  /\ op = "deleteAllByQuery" /\ dPc = "find"
  /\ \E e \in BackendErrors :
       /\ dAnswers' = Append(dAnswers, e)
       /\ dErr' = OnRoundRejected(e).err
       /\ dPc' = OnRoundRejected(e).pc
  /\ dFinds' = dFinds + 1
  /\ dReqs' = NextRoundRequests(dPc', dReqs, qSkip, qLimit, dDestroys + 1)
  /\ UNCHANGED <<op, recVars, findVars, dObjs, dDestroys, dLast, dGone,
                 saveVars, schemaVars>>

\* destroyAll resolves with the objects it was given, all of them deleted;
\* _deleteChunk returns deletedObjects.length and _destroyAll recurses or ends
DeleteDestroy ==
  /\ op = "deleteAllByQuery" /\ dPc = "destroy"
  /\ SeqRange(dObjs) \subseteq SeqRange(db)
  /\ db' = Without(db, SeqRange(dObjs))
  /\ dGone' = dGone \cup SeqRange(dObjs)
  /\ dDestroys' = dDestroys + 1
  /\ dAnswers' = Append(dAnswers, "ok")
  /\ dLast' = Len(dObjs)
  /\ dPc' = AfterRound(Len(dObjs))
  /\ dReqs' = NextRoundRequests(dPc', dReqs, qSkip, qLimit, dDestroys' + 1)
  /\ UNCHANGED <<op, n0, nIns, nDel, drift, qSkip, qLimit, findVars, dObjs,
                 dFinds, dErr, saveVars, schemaVars>>

\* destroyAll rejects (a backend error, or an object that is already gone):
\* the objects deleted before the error stay deleted
DeleteDestroyFail ==
  /\ op = "deleteAllByQuery" /\ dPc = "destroy"
  /\ \E k \in 0..Min(MaxPartial, Len(dObjs)) :
       /\ db' = Without(db, SeqRange(SubSeq(dObjs, 1, k)))
       /\ dGone' = dGone \cup (SeqRange(SubSeq(dObjs, 1, k)) \cap SeqRange(db))
  /\ \E e \in BackendErrors :
       /\ dAnswers' = Append(dAnswers, e)
       /\ dErr' = OnRoundRejected(e).err
       /\ dPc' = OnRoundRejected(e).pc
  /\ dDestroys' = dDestroys + 1
  /\ dReqs' = NextRoundRequests(dPc', dReqs, qSkip, qLimit, dDestroys' + 1)
  /\ UNCHANGED <<op, n0, nIns, nDel, drift, qSkip, qLimit, findVars, dObjs,
                 dFinds, dLast, saveVars, schemaVars>>

(***************************************************************************)
(* saveAllInChunks                                                         *)
(***************************************************************************)
DEFAULT_CHUNK_SIZE == 200

ObjectCounts ==
  (0..MaxObjs) \cup
  {k * DEFAULT_CHUNK_SIZE + d : k \in 1..MaxDefaultChunks, d \in {-1, 0, 1}}

ChunkSizes == {<<>>} \cup {<<c>> : c \in (-1)..MaxChunkSize}

\* chunkSize || 200 : undefined, null and 0 are falsy
ChunkSizeOrDefault(chunkSize) ==
  IF chunkSize = <<>> \/ chunkSize[1] = 0
    THEN DEFAULT_CHUNK_SIZE
    ELSE chunkSize[1]

\* Faulty variant: the trailing chunk that is not full is dropped
ChunkFullOnly(array, size) ==
  IF Len(array) = 0 \/ size < 1
    THEN <<>>
    ELSE [k \in 1..(Len(array) \div size) |->
            SubSeq(array, (k - 1) * size + 1, k * size)]

\* lodash chunk(array, size): [] when the array is empty or size < 1, else
\* the slices [0,size), [size,2*size), ... of the array
Chunk(array, size) ==
  IF Len(array) = 0 \/ size < 1
    THEN <<>>
    ELSE [k \in 1..Ceil(Len(array), size) |->
            SubSeq(array, (k - 1) * size + 1, Min(k * size, Len(array)))]

\* Faulty variant: the error of a chunk is swallowed and the loop goes on
OnSaveAllRejectedContinue(idx, e) ==
  [pc |-> "loop", idx |-> idx + 1, err |-> "none"]

\* await Parse.Object.saveAll(...) throws inside the for loop; there is no
\* try/catch, so saveAllInChunks rejects with the error and the loop ends
OnSaveAllRejected(idx, e) == [pc |-> "rejected", idx |-> idx, err |-> e]

\* Faulty variant: saveAll is called without await and the loop goes on
SaveAllCalledNoAwait(idx) == [pc |-> "loop", idx |-> idx + 1]

\* const chunkResult = await Parse.Object.saveAll(singleChunk, options):
\* the loop stands at this chunk until the call is answered
SaveAllCalled(idx) == [pc |-> "await", idx |-> idx]

\* Parse.Object.saveAll(list) resolves with the list of objects it was given
SaveAllResult(list) == list

\* Faulty variant: the batch is put in front of the batches before it
PushFront(result, chunkResult) == <<chunkResult>> \o result

\* result.push(chunkResult)
Push(result, chunkResult) == Append(result, chunkResult)

\* const objectsChunks = chunk(parseObjects, chunkSize || 200); result = []
SaveCall ==
  /\ op = "saveAllInChunks" /\ sPc = "call"
  /\ sChunks' = Chunk(sObjs, ChunkSizeOrDefault(sChunkSize))
  /\ sResult' = <<>>
  /\ sIdx' = 1
  /\ sPc' = "loop"
  /\ UNCHANGED <<op, recVars, findVars, delVars, sObjs, sChunkSize, sCalls,
                 sSaved, sInFlight, sReturned, sErr, sAnswers, sReplies,
                 schemaVars>>

\* for (const singleChunk of objectsChunks): Parse.Object.saveAll(singleChunk)
\* is called and awaited
SaveIssue ==
  /\ op = "saveAllInChunks" /\ sPc = "loop"
  /\ sIdx <= Len(sChunks)
  /\ sCalls' = Append(sCalls, sChunks[sIdx])
  /\ sInFlight' = sInFlight + 1
  /\ sPc' = SaveAllCalled(sIdx).pc
  /\ sIdx' = SaveAllCalled(sIdx).idx
  /\ UNCHANGED <<op, recVars, findVars, delVars, sObjs, sChunkSize, sChunks,
                 sResult, sSaved, sReturned, sErr, sAnswers, sReplies,
                 schemaVars>>

\* saveAll resolves with the saved objects: result.push(chunkResult)
SaveChunkOk ==
  /\ op = "saveAllInChunks" /\ sPc = "await"
  /\ sSaved' = sSaved \cup SeqRange(sChunks[sIdx])
  /\ sAnswers' = Append(sAnswers, "ok")
  /\ sInFlight' = sInFlight - 1
  /\ sReplies' = Append(sReplies, SaveAllResult(sChunks[sIdx]))
  /\ sResult' = Push(sResult, SaveAllResult(sChunks[sIdx]))
  /\ sIdx' = sIdx + 1
  /\ sPc' = "loop"
  /\ UNCHANGED <<op, recVars, findVars, delVars, sObjs, sChunkSize, sChunks,
                 sCalls, sReturned, sErr, schemaVars>>

\* saveAll rejects; the backend may have saved some objects of the chunk
SaveChunkFail ==
  /\ op = "saveAllInChunks" /\ sPc = "await"
  /\ \E k \in 0..Min(MaxPartial, Len(sChunks[sIdx])) :
       sSaved' = sSaved \cup SeqRange(SubSeq(sChunks[sIdx], 1, k))
  /\ \E e \in BackendErrors :
       /\ sAnswers' = Append(sAnswers, e)
       /\ LET after == OnSaveAllRejected(sIdx, e)
          IN  sPc' = after.pc /\ sIdx' = after.idx /\ sErr' = after.err
  /\ sInFlight' = sInFlight - 1
  /\ UNCHANGED <<op, recVars, findVars, delVars, sObjs, sChunkSize, sChunks,
                 sResult, sCalls, sReturned, sReplies, schemaVars>>

\* the for loop is over: return result
SaveReturn ==
  /\ op = "saveAllInChunks" /\ sPc = "loop"
  /\ sIdx > Len(sChunks)
  /\ sReturned' = <<sResult>>
  /\ sPc' = "resolved"
  /\ UNCHANGED <<op, recVars, findVars, delVars, sObjs, sChunkSize, sChunks,
                 sIdx, sResult, sCalls, sSaved, sInFlight, sErr, sAnswers,
                 sReplies, schemaVars>>

(***************************************************************************)
(* loadClassesFromSchemas / loadClass / getSchemaChanges                   *)
(***************************************************************************)
\* err.code === 103
CLASS_EXISTS_CODE == 103

NoError == [name |-> "none", code |-> 0]
\* answers of addClassIfNotExists that are no error
Pending == [name |-> "pending", code |-> 0]
Created == [name |-> "created", code |-> 0]
ParseError(code) == [name |-> "ParseError", code |-> code]
\* Object.keys(undefined) throws a TypeError, which has no code
TypeError == [name |-> "TypeError", code |-> 0]

\* the errors, other than "class already exists", a schema call can fail with
OtherSchemaErrors == {ParseError(1), ParseError(119)}
\* the schema controller's error for a patch that deletes a field the class
\* has not, or inserts one it has
InvalidPatchError == ParseError(255)

Classes == {"_User", "Post"}

\* a field descriptor
Desc(type) == [type |-> type]

\* {...descriptor, __op: opName}; descriptor undefined spreads to nothing
WithOp(descriptor, opName) ==
  [k \in DOMAIN descriptor \cup {"__op"} |->
     IF k = "__op" THEN opName ELSE descriptor[k]]

\* object[key], undefined (modelled as the empty object) when key is absent
Lookup(object, key) == IF key \in DOMAIN object THEN object[key] ELSE <<>>

\* Faulty variant: one list of ignored fields for every class
IGNORED_FIELDS_SAME(className) ==
  {"objectId", "createdAt", "updatedAt", "ACL"}

\* const IGNORED_FIELDS = (className !== '_User') ? [...] : [...]
IGNORED_FIELDS(className) ==
  IF className # "_User"
    THEN {"objectId", "createdAt", "updatedAt", "ACL"}
    ELSE {"objectId", "createdAt", "updatedAt", "ACL", "emailVerified",
          "authData", "username", "password", "email"}

\* Faulty variant: the ignored fields are left out of the deletion's comparison:
\* deletedFields = difference(remote keys, desired keys)
GetSchemaChangesDeleteIgnored(data, className, classSchema) ==
  LET deletedFields == DOMAIN data[className] \ DOMAIN classSchema
      newFields ==
        (DOMAIN classSchema \cup IGNORED_FIELDS(className)) \ DOMAIN data[className]
  IN  [field \in deletedFields \cup newFields |->
         IF field \in newFields
           THEN WithOp(Lookup(classSchema, field), "Insert")
           ELSE WithOp(data[className][field], "Delete")]

\* Faulty variant: the new fields are left out of the patch
GetSchemaChangesDeleteOnly(data, className, classSchema) ==
  LET deletedFields ==
        DOMAIN data[className] \ (DOMAIN classSchema \cup IGNORED_FIELDS(className))
  IN  [field \in deletedFields |-> WithOp(data[className][field], "Delete")]

\* getSchemaChanges(className, classSchema), data = parseServerDbSchema.data
\* and className a key of data.  Object.keys gives each key once and the
\* result is an object keyed by field, so the arrays are modelled as sets:
\* difference(a, b) is a \ b and concat(a, b) is a \cup b.
GetSchemaChanges(data, className, classSchema) ==
  LET deletedFields ==
        DOMAIN data[className] \ (DOMAIN classSchema \cup IGNORED_FIELDS(className))
      newFields ==
        (DOMAIN classSchema \cup IGNORED_FIELDS(className)) \ DOMAIN data[className]
  IN  [field \in deletedFields \cup newFields |->
         IF field \in newFields
           THEN WithOp(Lookup(classSchema, field), "Insert")
           ELSE WithOp(data[className][field], "Delete")]

\* loadClass, the catch block: what becomes of the task when the try block
\* threw err.  pc "patch": updateClass(className, patch, ...) is called and
\* awaited; "done": loadClass resolves; "failed": loadClass rejects with err.
\* computed: getSchemaChanges was called (it throws when the class is no key
\* of data).
LoadClassCatch(err, upd, data, className, classSchema) ==
  IF err.code = CLASS_EXISTS_CODE
    THEN IF upd
           THEN IF className \in DOMAIN data
                  THEN [pc |-> "patch", err |-> NoError, computed |-> TRUE,
                        patch |-> GetSchemaChanges(data, className, classSchema)]
                  ELSE [pc |-> "failed", err |-> TypeError, computed |-> TRUE,
                        patch |-> <<>>]
           ELSE [pc |-> "done", err |-> NoError, computed |-> FALSE,
                 patch |-> <<>>]
    ELSE [pc |-> "failed", err |-> err, computed |-> FALSE, patch |-> <<>>]

\* loadClass, the try block after addClassIfNotExists resolved:
\* updateClass(className, {}, classPermissions)
PermissionsCall(i, entry) ==
  [task |-> i, line |-> 278, name |-> entry.name, patch |-> <<>>,
   permissions |-> entry.permissions]

\* Faulty variant: the tasks of the other classes stop once the call has rejected
TasksRunUntilRejected(pc) == pc = "running"

\* await Promise.all(schemas.map(... => loadClass(...))): the loadClass
\* promises are all started, and a rejection of one rejects the Promise.all
\* without stopping the others
TasksRun(pc) == pc \in {"running", "rejected"}

(***************************************************************************)
(* The backend's schema controller.                                        *)
(***************************************************************************)

\* the columns the backend gives every class it creates
BackendDefaultColumns(className) ==
  [f \in (IF className # "_User"
            THEN {"objectId", "createdAt", "updatedAt", "ACL"}
            ELSE {"objectId", "createdAt", "updatedAt", "ACL", "emailVerified",
                  "authData", "username", "password", "email"})
     |-> Desc("System")]

\* f and g put together, f's value where both are defined
Merge(f, g) ==
  [k \in DOMAIN f \cup DOMAIN g |-> IF k \in DOMAIN f THEN f[k] ELSE g[k]]

\* f with key k set to v
Put(f, k, v) == [x \in DOMAIN f \cup {k} |-> IF x = k THEN v ELSE f[x]]

WithoutOp(entry) == [k \in DOMAIN entry \ {"__op"} |-> entry[k]]

DeletedBy(patch) == {f \in DOMAIN patch : patch[f]["__op"] = "Delete"}
InsertedBy(patch) == {f \in DOMAIN patch : patch[f]["__op"] = "Insert"}

\* updateClass refuses a patch that inserts a field the class has or
\* deletes one it has not
PatchConflicts(schema, patch) ==
  \/ InsertedBy(patch) \cap DOMAIN schema # {}
  \/ DeletedBy(patch) \ DOMAIN schema # {}

\* updateClass applies a patch: the deleted fields go, the inserted come
ApplyPatch(schema, patch) ==
  [f \in (DOMAIN schema \ DeletedBy(patch)) \cup InsertedBy(patch) |->
     IF f \in InsertedBy(patch) THEN WithoutOp(patch[f]) ELSE schema[f]]

(***************************************************************************)
(* The steps of loadClassesFromSchemas.                                    *)
(***************************************************************************)
\* the loadClass(...) calls started: one per entry of schemas
Tasks == DOMAIN tPc

\* the updateClass call task i has issued last (a loadClass issues a second
\* one when the call of line 278 is rejected with 103 and the catch block
\* goes on to line 283)
CallOf(i) ==
  LET ks == {k \in 1..Len(updCalls) : updCalls[k].task = i}
  IN  updCalls[CHOOSE k \in ks : \A l \in ks : l <= k]
HasCall(i) == \E c \in SeqRange(updCalls) : c.task = i

\* a loadClass rejects: the Promise.all of a call still pending rejects with
\* the same error
RejectWith(e) ==
  IF lPc = "running"
    THEN lPc' = "rejected" /\ lErr' = e
    ELSE UNCHANGED <<lPc, lErr>>

\* const parseServerDbSchema = await parseServerDb.loadSchema(), then
\* schemas.map(...) calls loadClass for every entry: each loadClass runs up
\* to its await of addClassIfNotExists
LoadSchema ==
  /\ op = "loadClassesFromSchemas" /\ lPc = "load"
  /\ snapshot' = remote
  /\ tPc' = [i \in 1..Len(schemas) |-> "add"]
  /\ tErr' = [i \in 1..Len(schemas) |-> NoError]
  /\ addAnswer' = [i \in 1..Len(schemas) |-> Pending]
  /\ updCalls' = <<>>
  /\ gscCalls' = {}
  /\ lPc' = "running"
  /\ UNCHANGED <<op, recVars, findVars, delVars, saveVars, remote, perms,
                 remote0, perms0, schemas, shouldUpdate, lErr, run, wCreated>>

\* loadSchema() rejects
LoadSchemaFail ==
  /\ op = "loadClassesFromSchemas" /\ lPc = "load"
  /\ \E e \in OtherSchemaErrors : lErr' = e
  /\ lPc' = "rejected"
  /\ UNCHANGED <<op, recVars, findVars, delVars, saveVars, remote, perms,
                 remote0, perms0, snapshot, schemas, shouldUpdate, tPc, tErr,
                 addAnswer, updCalls, gscCalls, run, wCreated>>

\* addClassIfNotExists creates the class; loadClass goes on to
\* updateClass(className, {}, classPermissions)
AddClassCreated(i) ==
  /\ op = "loadClassesFromSchemas" /\ TasksRun(lPc)
  /\ i \in Tasks /\ tPc[i] = "add"
  /\ schemas[i].name \notin DOMAIN remote
  /\ remote' = Put(remote, schemas[i].name,
                   Merge(schemas[i].schema, BackendDefaultColumns(schemas[i].name)))
  /\ perms' = Put(perms, schemas[i].name, "defaultCLP")
  /\ addAnswer' = [addAnswer EXCEPT ![i] = Created]
  /\ updCalls' = Append(updCalls, PermissionsCall(i, schemas[i]))
  /\ tPc' = [tPc EXCEPT ![i] = "setPerms"]
  /\ UNCHANGED <<op, recVars, findVars, delVars, saveVars, remote0, perms0,
                 snapshot, schemas, shouldUpdate, lPc, lErr, tErr, gscCalls,
                 run, wCreated>>

\* addClassIfNotExists rejects: with code 103 when the class exists, or with
\* another error; the catch block of loadClass runs
AddClassRejected(i) ==
  /\ op = "loadClassesFromSchemas" /\ TasksRun(lPc)
  /\ i \in Tasks /\ tPc[i] = "add"
  /\ \E e \in OtherSchemaErrors \cup {ParseError(CLASS_EXISTS_CODE)} :
       /\ e.code = CLASS_EXISTS_CODE <=> schemas[i].name \in DOMAIN remote
       /\ addAnswer' = [addAnswer EXCEPT ![i] = e]
       /\ LET after == LoadClassCatch(e, shouldUpdate, snapshot,
                                      schemas[i].name, schemas[i].schema)
          IN  /\ tPc' = [tPc EXCEPT ![i] = after.pc]
              /\ tErr' = [tErr EXCEPT ![i] = after.err]
              /\ updCalls' =
                   IF after.pc = "patch"
                     THEN Append(updCalls,
                            [task |-> i, line |-> 283, name |-> schemas[i].name,
                             patch |-> after.patch,
                             permissions |-> schemas[i].permissions])
                     ELSE updCalls
              /\ gscCalls' = IF after.computed THEN gscCalls \cup {i}
                                               ELSE gscCalls
              /\ IF after.pc = "failed"
                   THEN RejectWith(after.err)
                   ELSE UNCHANGED <<lPc, lErr>>
  /\ UNCHANGED <<op, recVars, findVars, delVars, saveVars, remote, perms,
                 remote0, perms0, snapshot, schemas, shouldUpdate, run, wCreated>>

\* the backend carries out the updateClass call of task i; loadClass resolves
UpdateClassOk(i) ==
  /\ op = "loadClassesFromSchemas" /\ TasksRun(lPc)
  /\ i \in Tasks /\ tPc[i] \in {"setPerms", "patch"}
  /\ LET call == CallOf(i)
     IN  /\ call.name \in DOMAIN remote
         /\ ~PatchConflicts(remote[call.name], call.patch)
         /\ remote' = [remote EXCEPT ![call.name] = ApplyPatch(@, call.patch)]
         /\ perms' = [perms EXCEPT ![call.name] = call.permissions]
  /\ tPc' = [tPc EXCEPT ![i] = "done"]
  /\ UNCHANGED <<op, recVars, findVars, delVars, saveVars, remote0, perms0,
                 snapshot, schemas, shouldUpdate, lPc, lErr, tErr, addAnswer,
                 updCalls, gscCalls, run, wCreated>>

\* updateClass rejects: the backend refuses the patch, or answers another
\* error, code 103 (for updateClass: no such class) among them.  The call of
\* line 278 is inside the try block, so its error reaches the catch block,
\* which treats a 103 as it treats the 103 of addClassIfNotExists; the call
\* of line 283 is inside the catch block and its error rejects loadClass.
UpdateClassRejected(i) ==
  /\ op = "loadClassesFromSchemas" /\ TasksRun(lPc)
  /\ i \in Tasks /\ tPc[i] \in {"setPerms", "patch"}
  /\ \E e \in OtherSchemaErrors \cup {InvalidPatchError,
                                       ParseError(CLASS_EXISTS_CODE)} :
       /\ e = InvalidPatchError =>
            PatchConflicts(remote[CallOf(i).name], CallOf(i).patch)
       /\ LET after ==
                IF tPc[i] = "setPerms"
                  THEN LoadClassCatch(e, shouldUpdate, snapshot,
                                      schemas[i].name, schemas[i].schema)
                  ELSE [pc |-> "failed", err |-> e, computed |-> FALSE,
                        patch |-> <<>>]
          IN  /\ tPc' = [tPc EXCEPT ![i] = after.pc]
              /\ tErr' = [tErr EXCEPT ![i] = after.err]
              /\ updCalls' =
                   IF after.pc = "patch"
                     THEN Append(updCalls,
                            [task |-> i, line |-> 283, name |-> schemas[i].name,
                             patch |-> after.patch,
                             permissions |-> schemas[i].permissions])
                     ELSE updCalls
              /\ gscCalls' = IF after.computed THEN gscCalls \cup {i}
                                               ELSE gscCalls
              /\ IF after.pc = "failed"
                   THEN RejectWith(after.err)
                   ELSE UNCHANGED <<lPc, lErr>>
  /\ UNCHANGED <<op, recVars, findVars, delVars, saveVars, remote, perms,
                 remote0, perms0, snapshot, schemas, shouldUpdate, addAnswer,
                 run, wCreated>>

\* every loadClass resolved: Promise.all and loadClassesFromSchemas resolve
LoadJoin ==
  /\ op = "loadClassesFromSchemas" /\ lPc = "running"
  /\ \A i \in Tasks : tPc[i] = "done"
  /\ lPc' = "resolved"
  /\ UNCHANGED <<op, recVars, findVars, delVars, saveVars, remote, perms,
                 remote0, perms0, snapshot, schemas, shouldUpdate, lErr, tPc,
                 tErr, addAnswer, updCalls, gscCalls, run, wCreated>>

\* the caller calls loadClassesFromSchemas again with the same arguments
LoadAgain ==
  /\ op = "loadClassesFromSchemas" /\ lPc = "resolved" /\ run = 1
  /\ run' = 2
  /\ lPc' = "load"
  /\ tPc' = <<>> /\ tErr' = <<>> /\ addAnswer' = <<>> /\ updCalls' = <<>>
  /\ gscCalls' = {}
  /\ UNCHANGED <<op, recVars, findVars, delVars, saveVars, remote, perms,
                 remote0, perms0, snapshot, schemas, shouldUpdate, lErr,
                 wCreated>>

\* another client of the same backend creates a class, with that client's
\* fields and permissions, while the loadClass calls are running
OtherClientCreatesClass ==
  /\ op = "loadClassesFromSchemas" /\ lPc = "running" /\ run = 1
  /\ Cardinality(wCreated) < MaxOtherCreates
  /\ \E c \in Classes \ DOMAIN remote :
       /\ remote' = Put(remote, c, Merge([f \in {"a"} |-> Desc("String")],
                                        BackendDefaultColumns(c)))
       /\ perms' = Put(perms, c, "otherCLP")
       /\ wCreated' = wCreated \cup {c}
  /\ UNCHANGED <<op, recVars, findVars, delVars, saveVars, remote0, perms0,
                 snapshot, schemas, shouldUpdate, lPc, lErr, tPc, tErr,
                 addAnswer, updCalls, gscCalls, run>>

\* the inputs
DesiredSchemas ==
  { [f \in {"a", "b"} |-> Desc("String")],
    [f \in {"a"} |-> Desc("Number")] }

\* the class schemas the backend can hold before the call: the default
\* columns and custom fields a, c; the default columns and custom field a;
\* or a class kept from an older backend, with no ACL column, and custom
\* fields a, email, emailVerified, authData, username, password
RemoteSchemas(className) ==
  { Merge([f \in {"a", "c"} |-> Desc("String")],
          BackendDefaultColumns(className)),
    Merge([f \in {"a"} |-> Desc("String")],
          BackendDefaultColumns(className)),
    Merge([f \in {"a", "email", "emailVerified", "authData", "username",
                  "password"} |-> Desc("String")],
          [f \in DOMAIN BackendDefaultColumns(className) \ {"ACL"} |->
             Desc("System")]) }

RemoteStates ==
  UNION { [S -> UNION {RemoteSchemas(c) : c \in Classes}] : S \in SUBSET Classes }

ClassEntries ==
  [name : Classes, schema : DesiredSchemas, permissions : {"desiredCLP"}]

SchemaInputs ==
  UNION { [1..n -> ClassEntries] : n \in 1..MaxSchemas }

(***************************************************************************)
(* The external writer: another client of the same backend.                *)
(***************************************************************************)
OpRunning ==
  \/ op = "findAll" /\ fPc \in {"count", "counted", "paging"}
  \/ op = "deleteAllByQuery" /\ dPc \in {"call", "find", "destroy"}

\* findAll has its count and is still to get the answer of some page request
BetweenCountAndLastPage ==
  /\ op = "findAll"
  /\ \/ fPc = "counted"
     \/ fPc = "paging" /\ \E i \in 1..Len(fPages) : fPages[i].st = "pending"

\* a new matching record (a fresh id) enters the backend's order, first or last
WriterInsert ==
  /\ OpRunning
  /\ nIns + nDel < MaxWrites
  /\ LET id == n0 + nIns + 1
     IN  \/ db' = <<id>> \o db
         \/ db' = db \o <<id>>
  /\ nIns' = nIns + 1
  /\ drift' = (drift \/ BetweenCountAndLastPage)
  /\ UNCHANGED <<op, n0, nDel, qSkip, qLimit, findVars, delVars, saveVars,
                 schemaVars>>

\* a matching record (the first or the last of the backend's order) is deleted
WriterDelete ==
  /\ OpRunning
  /\ nIns + nDel < MaxWrites
  /\ db # <<>>
  /\ \E p \in {1, Len(db)} : db' = RemoveAt(db, p)
  /\ nDel' = nDel + 1
  /\ drift' = (drift \/ BetweenCountAndLastPage)
  /\ UNCHANGED <<op, n0, nIns, qSkip, qLimit, findVars, delVars, saveVars,
                 schemaVars>>

(***************************************************************************)
(* Initial states and specifications.                                      *)
(***************************************************************************)
RecInit ==
  /\ \E n \in RecordCounts : n0 = n /\ db = [i \in 1..n |-> i]
  /\ nIns = 0 /\ nDel = 0 /\ drift = FALSE
  /\ qSkip = 0 /\ qLimit = -1

RecIdle ==
  /\ db = <<>> /\ n0 = 0 /\ nIns = 0 /\ nDel = 0 /\ drift = FALSE
  /\ qSkip = 0 /\ qLimit = -1

FindIdle ==
  /\ fPc = "count" /\ fCount = 0 /\ fReqs = <<>> /\ fPages = <<>>
  /\ fOrder = <<>>
  /\ fResult = <<>> /\ fErr = "none"

DelIdle ==
  /\ dPc = "call" /\ dObjs = <<>> /\ dFinds = 0 /\ dDestroys = 0
  /\ dLast = -1 /\ dErr = "none"
  /\ dReqs = <<>> /\ dAnswers = <<>> /\ dGone = {}

SaveIdle ==
  /\ sObjs = <<>> /\ sChunkSize = <<>> /\ sPc = "call" /\ sChunks = <<>>
  /\ sIdx = 1 /\ sResult = <<>> /\ sCalls = <<>> /\ sSaved = {}
  /\ sInFlight = 0 /\ sReturned = <<>> /\ sErr = "none" /\ sAnswers = <<>>
  /\ sReplies = <<>>

SchemaIdle ==
  /\ remote = <<>> /\ perms = <<>> /\ remote0 = <<>> /\ perms0 = <<>>
  /\ snapshot = <<>> /\ schemas = <<>>
  /\ shouldUpdate = TRUE /\ lPc = "load" /\ lErr = NoError
  /\ tPc = <<>> /\ tErr = <<>> /\ addAnswer = <<>> /\ updCalls = <<>>
  /\ gscCalls = {} /\ wCreated = {}
  /\ run = 1

InitFind ==
  /\ op = "findAll"
  /\ RecInit /\ FindIdle /\ DelIdle /\ SaveIdle /\ SchemaIdle

NextFind ==
  \/ FindCount
  \/ FindCountFail
  \/ FindIssuePages
  \/ \E i \in 1..(MaxPages + 2) : FindServePage(i)
  \/ \E i \in 1..(MaxPages + 2) : FindPageFail(i)
  \/ FindJoin
  \/ FindReject
  \/ WriterInsert
  \/ WriterDelete

SpecFind == InitFind /\ [][NextFind]_vars

InitDelete ==
  /\ op = "deleteAllByQuery"
  /\ RecInit /\ FindIdle /\ DelIdle /\ SaveIdle /\ SchemaIdle

NextDelete ==
  \/ DeleteCall
  \/ DeleteFind
  \/ DeleteFindFail
  \/ DeleteDestroy
  \/ DeleteDestroyFail
  \/ WriterInsert
  \/ WriterDelete

SpecDelete == InitDelete /\ [][NextDelete]_vars

InitSave ==
  /\ op = "saveAllInChunks"
  /\ RecIdle /\ FindIdle /\ DelIdle /\ SchemaIdle
  /\ \E n \in ObjectCounts : sObjs = [i \in 1..n |-> i]
  /\ sChunkSize \in ChunkSizes
  /\ sPc = "call" /\ sChunks = <<>> /\ sIdx = 1 /\ sResult = <<>>
  /\ sCalls = <<>> /\ sSaved = {} /\ sInFlight = 0 /\ sReturned = <<>>
  /\ sErr = "none" /\ sAnswers = <<>> /\ sReplies = <<>>

NextSave ==
  \/ SaveCall
  \/ SaveIssue
  \/ SaveChunkOk
  \/ SaveChunkFail
  \/ SaveReturn

SpecSave == InitSave /\ [][NextSave]_vars

InitSchema ==
  /\ op = "loadClassesFromSchemas"
  /\ RecIdle /\ FindIdle /\ DelIdle /\ SaveIdle
  /\ remote \in RemoteStates
  /\ \A c \in DOMAIN remote : remote[c] \in RemoteSchemas(c)
  /\ perms = [c \in DOMAIN remote |-> "oldCLP"]
  /\ remote0 = remote /\ perms0 = perms
  /\ snapshot = <<>>
  /\ schemas \in SchemaInputs
  /\ shouldUpdate \in BOOLEAN
  /\ lPc = "load" /\ lErr = NoError
  /\ tPc = <<>> /\ tErr = <<>> /\ addAnswer = <<>> /\ updCalls = <<>>
  /\ gscCalls = {} /\ wCreated = {}
  /\ run = 1

NextSchema ==
  \/ LoadSchema
  \/ LoadSchemaFail
  \/ \E i \in 1..(MaxSchemas + 1) : AddClassCreated(i)
  \/ \E i \in 1..(MaxSchemas + 1) : AddClassRejected(i)
  \/ \E i \in 1..(MaxSchemas + 1) : UpdateClassOk(i)
  \/ \E i \in 1..(MaxSchemas + 1) : UpdateClassRejected(i)
  \/ LoadJoin
  \/ LoadAgain

SpecSchema == InitSchema /\ [][NextSchema]_vars

\* loadClassesFromSchemas on a backend that another client writes to
NextSchemaShared ==
  \/ NextSchema
  \/ OtherClientCreatesClass

SpecSchemaShared == InitSchema /\ [][NextSchemaShared]_vars

(***************************************************************************)
(* Properties of findAll.                                                  *)
(***************************************************************************)
NoWrites == nIns = 0 /\ nDel = 0

NoDuplicates(s) == Cardinality(SeqRange(s)) = Len(s)

\* the records that matched when findAll was called and still match
MatchedThroughout == (1..n0) \cap SeqRange(db)

\* C1: with a fixed set of n0 matching records, findAll sends exactly
\* ceil(n0 / PAGE_SIZE) page requests, request i (from 1) with
\* skip = (i-1)*PAGE_SIZE and limit = PAGE_SIZE, and resolves to the n0
\* records, each once; with n0 = 0 it sends none and resolves to <<>>.
FindAllPagesAndResult ==
  (op = "findAll" /\ NoWrites) =>
    /\ fPc \in {"paging", "resolved"} =>
         /\ Len(fReqs) * PAGE_SIZE >= n0
         /\ (Len(fReqs) - 1) * PAGE_SIZE < n0
         /\ \A i \in 1..Len(fReqs) :
              fReqs[i].skip = (i - 1) * PAGE_SIZE /\ fReqs[i].limit = PAGE_SIZE
         /\ n0 = 0 => fReqs = <<>>
    /\ fPc = "resolved" =>
         /\ Len(fResult) = n0
         /\ SeqRange(fResult) = 1..n0
         /\ n0 = 0 => fResult = <<>>

FindAllPagesAndResultWitness ==
  /\ op = "findAll" /\ NoWrites /\ fPc = "resolved"
  /\ n0 = 2 * PAGE_SIZE + 1
  /\ Len(fReqs) = 3 /\ Len(fResult) = n0

\* C7 as stated: whatever the external writer does during the call, the
\* result of findAll holds every record that matched throughout the call,
\* and holds no record twice.
FindAllExactlyOnceUnderDrift ==
  (op = "findAll" /\ fPc = "resolved") =>
    /\ MatchedThroughout \subseteq SeqRange(fResult)
    /\ NoDuplicates(fResult)

\* C7 amended: the result holds every record that matched throughout the
\* call, and none twice, when no record is inserted or deleted between the
\* answer to count() and the answer to the last page request; in every case
\* each record of the result matched at some time during the call.
FindAllExactlyOnceWithoutDrift ==
  (op = "findAll" /\ fPc = "resolved") =>
    /\ ~drift =>
         /\ MatchedThroughout \subseteq SeqRange(fResult)
         /\ NoDuplicates(fResult)
    /\ SeqRange(fResult) \subseteq 1..(n0 + nIns)

FindAllExactlyOnceWithoutDriftWitness ==
  /\ op = "findAll" /\ fPc = "resolved"
  /\ ~drift /\ nDel = 1
  /\ Len(fReqs) = 2 /\ Len(fResult) = PAGE_SIZE + 1

(***************************************************************************)
(* Properties of deleteAllByQuery.                                         *)
(***************************************************************************)
\* C2: when deleteAllByQuery resolves and no matching record was inserted
\* meanwhile, no matching record is left, whatever n0; the loop goes on to
\* another round after a round that deleted some records and resolves only
\* after a round that deleted none.
DeleteAllLeavesNoMatch ==
  (op = "deleteAllByQuery") =>
    /\ (dPc = "resolved" /\ nIns = 0) => db = <<>>
    /\ dPc = "resolved" => dLast = 0
    /\ (dPc \in {"find", "destroy"} /\ dDestroys > 0) => dLast > 0

DeleteAllLeavesNoMatchWitness ==
  /\ op = "deleteAllByQuery" /\ dPc = "resolved" /\ nIns = 0
  /\ n0 = 2 * DELETE_LIMIT + 1 /\ db = <<>> /\ dDestroys >= 3

\* C3 as stated: with no concurrent mutation deleteAllByQuery resolves after
\* exactly ceil(n0 / 500) rounds, and after exactly one round when n0 = 0.
DeleteAllRoundsCeil ==
  (op = "deleteAllByQuery" /\ dPc = "resolved" /\ NoWrites) =>
    /\ dFinds = dDestroys
    /\ n0 = 0 => dFinds = 1
    /\ n0 > 0 => (dFinds * DELETE_LIMIT >= n0 /\ (dFinds - 1) * DELETE_LIMIT < n0)

\* C3 amended: with no concurrent mutation deleteAllByQuery resolves after
\* exactly ceil(n0 / 500) + 1 rounds, the last of which finds and deletes
\* nothing; that is one round when n0 = 0.
DeleteAllRoundsCeilPlusOne ==
  (op = "deleteAllByQuery" /\ dPc = "resolved" /\ NoWrites) =>
    /\ dFinds = dDestroys
    /\ (dFinds - 1) * DELETE_LIMIT >= n0
    /\ (dFinds - 2) * DELETE_LIMIT < n0
    /\ dObjs = <<>> /\ dLast = 0
    /\ n0 = 0 => dFinds = 1

DeleteAllRoundsCeilPlusOneWitness ==
  /\ op = "deleteAllByQuery" /\ dPc = "resolved" /\ NoWrites
  /\ n0 = DELETE_LIMIT + 1 /\ dFinds = 3 /\ dDestroys = 3

(***************************************************************************)
(* Properties of saveAllInChunks.                                          *)
(***************************************************************************)
\* the chunk size asked for: the one given, 200 when none is given
AskedChunkSize ==
  IF sChunkSize = <<>> THEN DEFAULT_CHUNK_SIZE ELSE sChunkSize[1]

\* C4: with chunk size C >= 1 (200 when chunkSize is not given) and N
\* objects, saveAllInChunks makes exactly ceil(N / C) saveAll calls; every
\* call but the last gets C objects, the last gets N mod C, or C when C
\* divides N; the arguments of the calls, concatenated in call order, are
\* the input (so every object goes to exactly one call).
SaveAllChunksPartitionInput ==
  (op = "saveAllInChunks" /\ sPc = "resolved" /\ AskedChunkSize >= 1) =>
    LET C == AskedChunkSize
        N == Len(sObjs)
        K == Len(sCalls)
    IN  /\ K * C >= N /\ (K - 1) * C < N
        /\ \A k \in 1..(K - 1) : Len(sCalls[k]) = C
        /\ K > 0 => Len(sCalls[K]) = (IF N % C = 0 THEN C ELSE N % C)
        /\ Flatten(sCalls) = sObjs
        /\ \A x \in SeqRange(sObjs) :
             Cardinality({k \in 1..K : x \in SeqRange(sCalls[k])}) = 1

SaveAllChunksPartitionInputWitness ==
  /\ op = "saveAllInChunks" /\ sPc = "resolved" /\ sChunkSize = <<>>
  /\ Len(sObjs) = 2 * DEFAULT_CHUNK_SIZE + 1
  /\ Len(sCalls) = 3 /\ Len(sCalls[3]) = 1

\* C10: when saveAll fails for chunk k, saveAllInChunks rejects with the
\* error of that call, has made no saveAll call for a chunk after k and
\* none twice for any chunk, returns no value, and the objects of the
\* chunks before k are saved.
SaveAllAbortsOnFailure ==
  (op = "saveAllInChunks") =>
    /\ (sAnswers # <<>> /\ sAnswers[Len(sAnswers)] # "ok") =>
         /\ sPc = "rejected"
         /\ sErr = sAnswers[Len(sAnswers)]
         /\ Len(sCalls) = Len(sAnswers)
         /\ \A k \in 1..Len(sCalls) : sCalls[k] = sChunks[k]
         /\ sReturned = <<>>
         /\ \A k \in 1..(Len(sCalls) - 1) :
              sAnswers[k] = "ok" /\ SeqRange(sChunks[k]) \subseteq sSaved
    /\ sPc = "rejected" => (sAnswers # <<>> /\ sErr \in BackendErrors)

SaveAllAbortsOnFailureWitness ==
  /\ op = "saveAllInChunks" /\ sPc = "rejected"
  /\ Len(sChunks) = 3 /\ Len(sCalls) = 2 /\ sErr = "forbidden"
  /\ SeqRange(sChunks[1]) \subseteq sSaved

(***************************************************************************)
(* Properties of loadClassesFromSchemas.                                   *)
(***************************************************************************)
\* the updateClass calls that submit a computed patch (the catch block)
PatchCalls == {c \in SeqRange(updCalls) : c.line = 283}

\* task i's create attempt was answered "class already exists"
AnsweredExists(i) == addAnswer[i].code = CLASS_EXISTS_CODE

TaskPending(i) == tPc[i] \in {"add", "setPerms", "patch"}

\* C5: for a class that exists remotely, with shouldUpdate = true, the patch
\* submitted to updateClass holds, for every field of the remote schema that
\* is neither desired nor ignored, the remote descriptor tagged Delete; for
\* every desired or ignored field the remote schema lacks, the desired
\* descriptor (nothing for an ignored field that is not desired) tagged
\* Insert; and nothing for a field of both sides.  Desired {a, b} against
\* remote {a, c} (and the ignored fields, so that they play no part) gives
\* exactly: c deleted, b inserted.
PatchIsFieldDifference ==
  (op = "loadClassesFromSchemas") =>
    \A c \in PatchCalls :
      LET desired  == schemas[c.task].schema
          existing == snapshot[c.name]
          ignored  == IGNORED_FIELDS(c.name)
      IN  /\ shouldUpdate /\ AnsweredExists(c.task)
          /\ \A f \in DOMAIN existing \ (DOMAIN desired \cup ignored) :
               /\ f \in DOMAIN c.patch
               /\ c.patch[f] = [type |-> existing[f].type, __op |-> "Delete"]
          /\ \A f \in (DOMAIN desired \cup ignored) \ DOMAIN existing :
               /\ f \in DOMAIN c.patch
               /\ c.patch[f] = IF f \in DOMAIN desired
                                 THEN [type |-> desired[f].type, __op |-> "Insert"]
                                 ELSE [__op |-> "Insert"]
          /\ DOMAIN c.patch \cap (DOMAIN existing \cap (DOMAIN desired \cup ignored)) = {}
          /\ DOMAIN c.patch \subseteq DOMAIN existing \cup DOMAIN desired \cup ignored
          /\ (/\ DOMAIN desired = {"a", "b"}
              /\ DOMAIN existing = {"a", "c"} \cup ignored)
             => /\ DOMAIN c.patch = {"b", "c"}
                /\ c.patch["c"]["__op"] = "Delete"
                /\ c.patch["b"]["__op"] = "Insert"

PatchIsFieldDifferenceWitness ==
  /\ op = "loadClassesFromSchemas" /\ shouldUpdate
  /\ \E c \in PatchCalls :
       /\ c.name = "Post"
       /\ DOMAIN schemas[c.task].schema = {"a", "b"}
       /\ DOMAIN snapshot["Post"] = {"a", "c"} \cup IGNORED_FIELDS("Post")
       /\ DOMAIN c.patch = {"b", "c"}
       /\ tPc[c.task] = "done"

\* C6 as stated: with shouldUpdate = false, a class whose create attempt was
\* answered "class already exists" still gets a permissions-only updateClass
\* call (empty patch, the desired permissions).
ExistingClassGetsPermissions ==
  (op = "loadClassesFromSchemas" /\ ~shouldUpdate) =>
    \A i \in Tasks :
      (AnsweredExists(i) /\ tPc[i] = "done") =>
        /\ HasCall(i)
        /\ DOMAIN CallOf(i).patch = {}
        /\ CallOf(i).permissions = schemas[i].permissions

\* C8 as stated: in a second call with the same arguments, made after the
\* first call resolved and the backend applied its patches, every patch
\* computed is empty.
SecondRunPatchesEmpty ==
  (op = "loadClassesFromSchemas" /\ run = 2) =>
    \A c \in PatchCalls : DOMAIN c.patch = {}

\* no class is named by two entries of schemas with different desired schemas
OneSchemaPerClass ==
  \A i, j \in DOMAIN schemas :
    schemas[i].name = schemas[j].name => schemas[i].schema = schemas[j].schema

\* C8 amended: the same, for a schemas argument that names no class twice
\* with two different desired schemas.
SecondRunPatchesEmptyOneSchemaPerClass ==
  (op = "loadClassesFromSchemas" /\ run = 2 /\ OneSchemaPerClass) =>
    \A c \in PatchCalls : DOMAIN c.patch = {}

SecondRunPatchesEmptyOneSchemaPerClassWitness ==
  /\ op = "loadClassesFromSchemas" /\ run = 2 /\ OneSchemaPerClass
  /\ lPc = "resolved" /\ Len(schemas) = 2
  /\ schemas[1].name # schemas[2].name
  /\ \A i \in Tasks : HasCall(i) /\ CallOf(i).line = 283
  /\ remote # remote0
  /\ \E c \in DOMAIN remote0 : remote[c] # remote0[c]
  /\ \E c \in DOMAIN remote : c \notin DOMAIN remote0

\* C9: an error other than "class already exists" (code 103) answered to a
\* class's create attempt rejects that class's loadClass with the same
\* error, with no updateClass call for it; the loadClass of every other
\* class goes on: whenever it waits for an answer, the answer can come.
OtherErrorsFailOneClassOnly ==
  (op = "loadClassesFromSchemas") =>
    /\ \A i \in Tasks :
         addAnswer[i] \in OtherSchemaErrors =>
           /\ tPc[i] = "failed" /\ tErr[i] = addAnswer[i] /\ ~HasCall(i)
           /\ lPc = "rejected"
    /\ \A j \in Tasks :
         TaskPending(j) =>
           ENABLED (\/ AddClassCreated(j) \/ AddClassRejected(j)
                    \/ UpdateClassOk(j) \/ UpdateClassRejected(j))
    /\ \A j \in Tasks :
         /\ tPc[j] = "setPerms" => (addAnswer[j] = Created /\ HasCall(j))
         /\ tPc[j] = "patch" => (AnsweredExists(j) /\ HasCall(j))
         /\ tPc[j] = "done" =>
              \/ addAnswer[j] = Created /\ HasCall(j)
              \/ AnsweredExists(j) /\ (shouldUpdate <=> HasCall(j))

OtherErrorsFailOneClassOnlyWitness ==
  /\ op = "loadClassesFromSchemas" /\ lPc = "rejected"
  /\ \E i, j \in Tasks :
       /\ i # j /\ schemas[i].name # schemas[j].name
       /\ addAnswer[i] = ParseError(119) /\ tErr[i] = ParseError(119)
       /\ lErr = ParseError(119)
       /\ tPc[i] = "failed" /\ tPc[j] = "done"
       /\ HasCall(j) /\ CallOf(j).line = 283 /\ DOMAIN CallOf(j).patch # {}
       /\ remote[schemas[j].name] # remote0[schemas[j].name]

(***************************************************************************)
(* Claims: deleteAllByQuery, failures and sequencing.                      *)
(***************************************************************************)
\* C11: when the backend rejects a round's find() or destroyAll(),
\* deleteAllByQuery rejects with that error and sends no further request;
\* what the destroyAll calls have deleted stays deleted.
DeleteAllFailsFast ==
  (op = "deleteAllByQuery") =>
    /\ \A k \in 1..Len(dAnswers) :
         dAnswers[k] \in BackendErrors =>
           /\ k = Len(dAnswers) /\ Len(dReqs) = k
           /\ dPc = "rejected" /\ dErr = dAnswers[k]
    /\ dPc = "rejected" =>
         /\ dAnswers # <<>> /\ dAnswers[Len(dAnswers)] \in BackendErrors
         /\ dFinds + dDestroys = Len(dAnswers)
    /\ \A k \in 1..Len(dAnswers) :
         (dReqs[k].kind = "destroyAll" /\ dAnswers[k] = "ok") =>
           SeqRange(dReqs[k].objs) \subseteq dGone
    /\ dGone \cap SeqRange(db) = {}

DeleteAllFailsFastWitness ==
  /\ op = "deleteAllByQuery" /\ dPc = "rejected" /\ dErr = "timeout"
  /\ Len(dAnswers) = 4 /\ dAnswers[4] = "timeout"
  /\ dReqs[4].kind = "destroyAll" /\ dReqs[4].objs # <<>>
  /\ Cardinality(dGone) >= DELETE_LIMIT
  /\ db # <<>>

\* C18: deleteAllByQuery has at most one backend request in flight: requests
\* alternate find(), destroyAll(), find(), ..., each sent only after the one
\* before it was answered without error; every find() is the caller's filter
\* with the caller's skip and a limit of 500, the same in every round.
DeleteAllSequential ==
  (op = "deleteAllByQuery") =>
    /\ dInFlight \in {0, 1}
    /\ (dInFlight = 1) <=> (dPc \in {"find", "destroy"})
    /\ \A k \in 1..Len(dReqs) :
         /\ dReqs[k].kind = (IF k % 2 = 1 THEN "find" ELSE "destroyAll")
         /\ k > 1 => (k - 1 <= Len(dAnswers) /\ dAnswers[k - 1] = "ok")
         /\ dReqs[k].kind = "find" =>
              (dReqs[k].skip = 0 /\ dReqs[k].limit = DELETE_LIMIT)
    /\ qSkip = 0

DeleteAllSequentialWitness ==
  /\ op = "deleteAllByQuery" /\ dPc = "find"
  /\ Len(dReqs) = 5 /\ Len(dAnswers) = 4
  /\ Len(dReqs[2].objs) = DELETE_LIMIT /\ Len(dReqs[4].objs) = DELETE_LIMIT
  /\ db # <<>>

(***************************************************************************)
(* Claims: findAll, failures, the caller's query, completion order.        *)
(***************************************************************************)
\* C12: when parseQuery.count() or the find() of any page is rejected,
\* findAll rejects with an error of the backend: it never resolves, hands
\* out no records of the pages that did succeed, and sends no request again
\* (one request per page, each answered at most once).
FindAllFailsAsAWhole ==
  (op = "findAll") =>
    /\ (\E i \in 1..Len(fPages) : fPages[i].st \in BackendErrors) =>
         /\ fPc \in {"paging", "rejected"}
         /\ fPc = "paging" => ENABLED FindReject
    /\ fPc = "rejected" =>
         /\ fErr \in BackendErrors /\ fResult = <<>>
         /\ \/ fReqs = <<>> /\ fOrder = <<>>
            \/ /\ fOrder # <<>>
               /\ fErr = fPages[FirstRejected(fPages, fOrder)].st
    /\ fPc = "resolved" => \A i \in 1..Len(fPages) : fPages[i].st = "ok"
    /\ fPc \in {"paging", "resolved", "rejected"} /\ fReqs # <<>> =>
         Len(fReqs) = Ceil(fCount, PAGE_SIZE)
    /\ \A k, l \in 1..Len(fOrder) : fOrder[k] = fOrder[l] => k = l

FindAllFailsAsAWholeWitness ==
  /\ op = "findAll" /\ fPc = "rejected" /\ fErr = "forbidden"
  /\ Len(fPages) = 3
  /\ fPages[1].st = "ok" /\ fPages[1].recs # <<>>
  /\ fPages[2].st = "forbidden"
  /\ fPages[3].st = "ok" /\ fPages[3].recs # <<>>

\* C15 as stated: findAll leaves the caller's query as it was: once findAll
\* has resolved, the query's skip and limit are what they were at the call.
FindAllLeavesQueryUntouched ==
  (op = "findAll" /\ fPc = "resolved") => (qSkip = 0 /\ qLimit = -1)

\* C16: every page request is sent before any answer is awaited, and the
\* result is the page results joined in page-index order, whatever the order
\* in which the answers arrive.
FindAllJoinsInPageOrder ==
  (op = "findAll") =>
    /\ fPc \in {"paging", "resolved"} =>
         /\ Len(fReqs) = Ceil(fCount, PAGE_SIZE)
         /\ \A i \in 1..Len(fReqs) : fReqs[i].skip = (i - 1) * PAGE_SIZE
         /\ Len(fOrder) <= Len(fReqs)
    /\ fPc = "resolved" =>
         LET n == Len(fPages)
             offset == [i \in 1..(n + 1) |->
                          Len(Flatten([j \in 1..(i - 1) |-> fPages[j].recs]))]
         IN  /\ Len(fResult) = offset[n + 1]
             /\ \A i \in 1..n : \A k \in 1..Len(fPages[i].recs) :
                  fResult[offset[i] + k] = fPages[i].recs[k]

FindAllJoinsInPageOrderWitness ==
  /\ op = "findAll" /\ fPc = "resolved"
  /\ fOrder = <<3, 1, 2>>
  /\ \A i \in 1..3 : fPages[i].recs # <<>>
  /\ Len(fResult) = 2 * PAGE_SIZE + 1

(***************************************************************************)
(* Claims: saveAllInChunks, result batches and sequencing.                 *)
(***************************************************************************)
\* C13: with chunk size C >= 1 and N objects, saveAllInChunks resolves to a
\* sequence of exactly ceil(N / C) batches, and its k-th batch is what the
\* k-th saveAll call, the one made for the k-th chunk, resolved to.
SaveAllReturnsBatchPerChunk ==
  (op = "saveAllInChunks" /\ sPc = "resolved" /\ AskedChunkSize >= 1) =>
    /\ Len(sReturned) = 1
    /\ LET result == sReturned[1]
       IN  /\ Len(result) = Ceil(Len(sObjs), AskedChunkSize)
           /\ Len(sReplies) = Len(result) /\ Len(sCalls) = Len(result)
           /\ \A k \in 1..Len(result) :
                /\ result[k] = sReplies[k]
                /\ sCalls[k] = sChunks[k]
                /\ SeqRange(result[k]) = SeqRange(sChunks[k])

SaveAllReturnsBatchPerChunkWitness ==
  /\ op = "saveAllInChunks" /\ sPc = "resolved"
  /\ sChunkSize = <<2>> /\ Len(sObjs) = 3
  /\ sReturned = << << <<1, 2>>, <<3>> >> >>

\* C17: saveAllInChunks has at most one saveAll call in flight: the call
\* for a chunk is made only after the call for the chunk before it was
\* answered (without error).
SaveAllSequential ==
  (op = "saveAllInChunks") =>
    /\ sInFlight \in {0, 1}
    /\ (sInFlight = 1) <=> (sPc = "await")
    /\ Len(sCalls) = Len(sAnswers) + sInFlight
    /\ \A k \in 2..Len(sCalls) : sAnswers[k - 1] = "ok"

SaveAllSequentialWitness ==
  /\ op = "saveAllInChunks" /\ sPc = "await" /\ sInFlight = 1
  /\ Len(sChunks) = 3 /\ Len(sCalls) = 3 /\ Len(sAnswers) = 2

(***************************************************************************)
(* Claims: loadClassesFromSchemas, ignored fields and the create path.     *)
(***************************************************************************)
SystemFields == {"objectId", "createdAt", "updatedAt", "ACL"}
AccountFields == {"emailVerified", "authData", "username", "password", "email"}

\* the ignore-list as the specification states it
ReservedFields(className) ==
  IF className = "_User" THEN SystemFields \cup AccountFields ELSE SystemFields

\* C14 as stated: no patch sent to updateClass has an entry, Insert or
\* Delete, for a field of the class's ignore-list, whatever the remote and
\* the desired fields are.
NoPatchTouchesIgnoredFields ==
  (op = "loadClassesFromSchemas") =>
    \A c \in PatchCalls : DOMAIN c.patch \cap ReservedFields(c.name) = {}

\* C19 as stated: a loadClass whose addClassIfNotExists created the class
\* (the class did not exist remotely) takes the create path only: the class
\* is created with the desired schema, then the one updateClass call of that
\* loadClass has an empty patch and the desired permissions, and that
\* loadClass never calls getSchemaChanges.  For a class that was absent
\* before the call and that one entry of schemas names, getSchemaChanges is
\* called by no one.
NewClassTakesCreatePathOnly ==
  (op = "loadClassesFromSchemas") =>
    /\ \A i \in Tasks :
         addAnswer[i] = Created =>
           /\ schemas[i].name \notin DOMAIN snapshot
           /\ schemas[i].name \in DOMAIN remote
           /\ \A f \in DOMAIN schemas[i].schema :
                /\ f \in DOMAIN remote[schemas[i].name]
                /\ remote[schemas[i].name][f] = schemas[i].schema[f]
           /\ Cardinality({k \in 1..Len(updCalls) : updCalls[k].task = i}) = 1
           /\ CallOf(i).line = 278 /\ CallOf(i).name = schemas[i].name
           /\ DOMAIN CallOf(i).patch = {}
           /\ CallOf(i).permissions = schemas[i].permissions
           /\ i \notin gscCalls
    /\ \A i \in Tasks :
         (/\ schemas[i].name \notin DOMAIN snapshot
          /\ \A j \in Tasks : schemas[j].name = schemas[i].name => j = i) =>
           /\ ~AnsweredExists(i) /\ i \notin gscCalls
           /\ \A c \in PatchCalls : c.name # schemas[i].name

\* C20: a remote field named emailVerified, authData, username, password or
\* email that the desired schema lacks is never tagged Delete in a patch for
\* _User and always tagged Delete in a patch for any other class; objectId,
\* createdAt, updatedAt and ACL are never tagged Delete; so a patch deletes
\* exactly the remote fields that are neither desired nor on the class's list.
IgnoreListAsymmetric ==
  (op = "loadClassesFromSchemas") =>
    \A c \in PatchCalls :
      LET desired  == DOMAIN schemas[c.task].schema
          existing == DOMAIN snapshot[c.name]
      IN  /\ \A f \in (AccountFields \cap existing) \ desired :
               IF c.name = "_User" THEN f \notin DeletedBy(c.patch)
                                   ELSE f \in DeletedBy(c.patch)
          /\ DeletedBy(c.patch) \cap SystemFields = {}
          /\ DeletedBy(c.patch) =
               existing \ (desired \cup
                  (IF c.name = "_User" THEN SystemFields \cup AccountFields
                                       ELSE SystemFields))

IgnoreListAsymmetricWitness ==
  /\ op = "loadClassesFromSchemas"
  /\ \E c, d \in PatchCalls :
       /\ c.name = "_User" /\ d.name = "Post"
       /\ AccountFields \subseteq DOMAIN snapshot["_User"]
       /\ AccountFields \subseteq DOMAIN snapshot["Post"]
       /\ AccountFields \cap DOMAIN schemas[c.task].schema = {}
       /\ AccountFields \cap DOMAIN schemas[d.task].schema = {}
       /\ DeletedBy(c.patch) = {"c"}
       /\ AccountFields \subseteq DeletedBy(d.patch)
       /\ tPc[c.task] = "done" /\ tPc[d.task] = "done"
       /\ AccountFields \subseteq DOMAIN remote["_User"]
       /\ AccountFields \cap DOMAIN remote["Post"] = {}

\* C21 as stated: whenever a loadClass takes the patch path (its create
\* attempt was answered 103 and shouldUpdate is true, so getSchemaChanges is
\* called), the class is a key of the snapshot loadSchema() returned at the
\* start of the call; also when schemas names a class twice, and when
\* another client created the class after the snapshot was loaded.
PatchPathFindsSnapshotEntry ==
  (op = "loadClassesFromSchemas") =>
    \A i \in Tasks :
      (AnsweredExists(i) /\ shouldUpdate) =>
        /\ i \in gscCalls
        /\ schemas[i].name \in DOMAIN snapshot
        /\ tErr[i] # TypeError

====
